---- MODULE Spec2Model ----
(***************************************************************************)
(* Model of network/stream.go: the framed, signed message transport        *)
(* (sendMessage / receiveMessage) and the timeout-bounded dispatch entry   *)
(* point (Write).                                                          *)
(*                                                                         *)
(* Two state machines share the module:                                    *)
(*   Spec      - one sendMessage call (or a raw peer) feeding one          *)
(*               receiveMessage call over a byte stream;                   *)
(*   SpecWrite - concurrent Write calls, the SendQueue channel and the     *)
(*               workers that consume it.                                  *)
(***************************************************************************)
EXTENDS Integers, Sequences, FiniteSets, TLC

VARIABLES
    \* ---- sendMessage (one call) ----
    sPc,        \* position of the sendMessage call
    sBytes,     \* proto.Marshal(message): the serialized message
    sFrame,     \* bytes handed to writer.Write (prefix buffer ++ message)
    sWritten,   \* the count writer.Write returned
    sErr,       \* the error sendMessage returned ("pending" until it returns)
    sDeadline,  \* TRUE once the deferred deadline reset is registered
    sLog,       \* operations invoked on the sender's stream, in order
    \* ---- the stream between the two ends ----
    wire,       \* bytes written by the peer and not yet read by receiveMessage
    wireEnd,    \* "open" | "closed": whether the peer has closed its end
    \* ---- receiveMessage (one call) ----
    rPc,        \* position of the receiveMessage call
    rProbe,     \* bytes the first reader.Read returned (n)
    rConsumed,  \* bytes the bufio reader pulled from the stream for that Read
    rSize,      \* size decoded by binary.Uvarint (saturated at SatSize)
    rRead,      \* the read count binary.Uvarint returned
    rAlloc,     \* size of the body buffer allocated at line 103, or -1
    rBodyReads, \* number of io.ReadFull calls for the body
    rGot,       \* body bytes obtained by io.ReadFull before it returned
    rBody,      \* the body buffer after a full read
    rMsg,       \* the message proto.Unmarshal produced, or NoMsg
    rVerify,    \* sequence of messages crypto.Verify was invoked on
    rResult,    \* the message receiveMessage returned, or NoMsg
    rErr,       \* the error receiveMessage returned ("pending" until it returns)
    rDeadline,  \* TRUE once the deferred deadline reset is registered
    rLog,       \* operations invoked on the receiver's stream, in order
    \* ---- Write / SendQueue ----
    wPc,        \* position of each Write call
    wArgs,      \* (address, message) each Write call was given
    packets,    \* the Packet each Write call created
    sendQueue,  \* buffered contents of n.SendQueue
    sendQueueCap, \* capacity n.SendQueue was made with
    resultChan, \* the Result channel of each packet: [cap, buf]
    wTimer,     \* time.After(3s) of each call: "off" | "running" | "fired"
    wRet,       \* what each Write call returned ("pending" until it returns)
    wFrom,      \* which select case each Write call returned through
    wRaw,       \* the value each Write call received from its Result channel
    cPc,        \* each worker: "idle" | "holding"
    cPkt,       \* the packet a worker holds
    taken,      \* how many times each packet was received from SendQueue
    completedWith, \* the values workers wrote for each packet, in order
    lateTaken,  \* packets received from SendQueue after their Write returned
    lateCompleted \* packets completed after their Write returned

streamVars == <<sPc, sBytes, sFrame, sWritten, sErr, sDeadline, sLog, wire, wireEnd,
                rPc, rProbe, rConsumed, rSize, rRead, rAlloc, rBodyReads, rGot, rBody,
                rMsg, rVerify, rResult, rErr, rDeadline, rLog>>

writeVars == <<wPc, wArgs, packets, sendQueue, sendQueueCap, resultChan, wTimer, wRet,
               wFrom, wRaw, cPc, cPkt, taken, completedWith, lateTaken, lateCompleted>>

vars == <<streamVars, writeVars>>

Min(a, b) == IF a <= b THEN a ELSE b

(***************************************************************************)
(* Byte strings.  A byte string is a sequence of runs [b |-> byte,         *)
(* n |-> count], n >= 1, adjacent runs holding different bytes, so that    *)
(* equal byte strings are equal values and a 4,000,000-byte body is one    *)
(* run.                                                                    *)
(***************************************************************************)
Run(b, n) == IF n = 0 THEN <<>> ELSE <<[b |-> b, n |-> n]>>

RECURSIVE BLen(_)
BLen(s) == IF s = <<>> THEN 0 ELSE Head(s).n + BLen(Tail(s))

\* s ++ t, merging the runs that meet
BCat(s, t) ==
    IF s = <<>> THEN t
    ELSE IF t = <<>> THEN s
    ELSE IF s[Len(s)].b = Head(t).b
         THEN SubSeq(s, 1, Len(s) - 1)
              \o <<[b |-> Head(t).b, n |-> s[Len(s)].n + Head(t).n]>>
              \o Tail(t)
         ELSE s \o t

\* the first k bytes of s (all of s when it is shorter)
RECURSIVE BTake(_, _)
BTake(s, k) ==
    IF k <= 0 \/ s = <<>> THEN <<>>
    ELSE IF Head(s).n >= k THEN <<[b |-> Head(s).b, n |-> k]>>
    ELSE <<Head(s)>> \o BTake(Tail(s), k - Head(s).n)

\* s without its first k bytes
RECURSIVE BDrop(_, _)
BDrop(s, k) ==
    IF k <= 0 \/ s = <<>> THEN s
    ELSE IF Head(s).n > k THEN <<[b |-> Head(s).b, n |-> Head(s).n - k]>> \o Tail(s)
    ELSE BDrop(Tail(s), k - Head(s).n)

\* a short byte string as a plain sequence of bytes
RECURSIVE BExplode(_)
BExplode(s) ==
    IF s = <<>> THEN <<>>
    ELSE <<Head(s).b>> \o BExplode(BDrop(s, 1))

\* a plain sequence of bytes as a byte string
RECURSIVE BFromSeq(_)
BFromSeq(q) ==
    IF q = <<>> THEN <<>>
    ELSE BCat(Run(Head(q), 1), BFromSeq(Tail(q)))

(***************************************************************************)
(* encoding/binary                                                         *)
(***************************************************************************)
MaxVarintLen64 == 10

\* sizes of 2^28 and more are all represented by SatSize: the code only
\* compares them with the 4e6 limit
SatSize == 128 * 2097152

Pow128(i) == IF i = 0 THEN 1 ELSE IF i = 1 THEN 128 ELSE IF i = 2 THEN 16384 ELSE 2097152

\* binary.PutUvarint: the bytes it stores (7 bits per byte, low group first,
\* the high bit set on every byte but the last)
RECURSIVE UvarintBytes(_)
UvarintBytes(x) ==
    IF x < 128 THEN <<x>>
    ELSE <<(x % 128) + 128>> \o UvarintBytes(x \div 128)

\* make([]byte, size) holding q at its start: the rest stays zero
ZeroPadded(q, size) == q \o [i \in 1..(size - Len(q)) |-> 0]

\* x | uint64(low7) << (7 * i), saturated
ShiftOr(x, low7, i) ==
    IF low7 = 0 THEN x
    ELSE IF i >= 4 \/ x = SatSize THEN SatSize
    ELSE Min(SatSize, x + low7 * Pow128(i))

\* binary.Uvarint(buf): [size, read]; read = 0 when buf ends inside the
\* varint, read < 0 on 64-bit overflow.  i is the Go index of the next byte.
RECURSIVE UvarintFrom(_, _, _)
UvarintFrom(buf, i, x) ==
    IF i >= Len(buf) THEN [size |-> 0, read |-> 0]
    ELSE LET b == buf[i + 1] IN
         IF i >= MaxVarintLen64 THEN [size |-> 0, read |-> -(i + 1)]
         ELSE IF b < 128
              THEN IF i = MaxVarintLen64 - 1 /\ b > 1
                   THEN [size |-> 0, read |-> -(i + 1)]
                   ELSE [size |-> ShiftOr(x, b, i), read |-> i + 1]
              ELSE UvarintFrom(buf, i + 1, ShiftOr(x, b % 128, i))

Uvarint(buf) == UvarintFrom(buf, 0, 0)

(***************************************************************************)
(* Bounds and input sets                                                   *)
(***************************************************************************)
\* longest serialized message enumerated byte by byte
MaxSmallLen == 2

\* 4e+6, the receive-side limit on the declared size (line 98)
MaxMessageSize == 4000000

\* default buffer size of bufio.NewWriter / bufio.NewReader
BufioSize == 4096

PayloadBytes == {0, 7}

RECURSIVE SeqsUpTo(_, _)
SeqsUpTo(S, k) ==
    IF k = 0 THEN {<<>>}
    ELSE LET shorter == SeqsUpTo(S, k - 1)
         IN  shorter \cup {Append(q, x) : q \in {r \in shorter : Len(r) = k - 1}, x \in S}

\* lengths of the long serialized messages: around the one/two byte varint
\* boundary, around the bufio buffer size, and around the 4e6 limit
LongLens == {127, 128, BufioSize - MaxVarintLen64, BufioSize - MaxVarintLen64 + 1,
             MaxMessageSize, MaxMessageSize + 1}

\* what proto.Marshal can return for the message being sent
MarshalOutputs ==
    {BFromSeq(q) : q \in SeqsUpTo(PayloadBytes, MaxSmallLen)}
        \cup {Run(9, n) : n \in LongLens}

\* how many bytes of a failing stream.Write still reach the peer
PartialWrites == {0, 1, MaxVarintLen64, MaxVarintLen64 + 1}

\* how many bytes the transport hands to the first stream.Read
FirstChunks == {1, 3, MaxVarintLen64, BufioSize}

\* declared sizes and delivered body lengths a raw peer tries
RawSizes == {0, 1, 3, 100, MaxMessageSize, MaxMessageSize + 1}
RawDelivered(L) == {k \in {0, 1, 2, 10, L - 1, L, L + 1} : k >= 0}

\* byte streams a peer that does not run sendMessage puts on the stream
RawWires ==
    \* a 10-byte prefix declaring L, followed by k body bytes
    {BCat(BFromSeq(ZeroPadded(UvarintBytes(L), MaxVarintLen64)), Run(7, k)) :
        L \in RawSizes, k \in UNION {RawDelivered(M) : M \in RawSizes}}
    \* a minimal varint declaring L, followed directly by k body bytes
    \cup {BCat(BFromSeq(UvarintBytes(L)), Run(7, k)) : L \in {1, 3, 100, 300}, k \in {0, 1, 3, 100}}
    \* malformed prefixes: never terminated, 64-bit overflow, 2^64 - 1; nothing at all
    \cup {Run(128, MaxVarintLen64), BCat(Run(255, 9), Run(2, 1)),
          BCat(Run(255, 9), Run(1, 1)), <<>>}

(***************************************************************************)
(* protobuf.Message as receiveMessage sees it                              *)
(***************************************************************************)
NoMsg == [nil |-> TRUE]

\* Message, Sender, PublicKey, Signature: whether the field is non-nil;
\* Address: len(msg.Sender.Address); genuine: whether Signature was produced
\* by signing Message.Value with the private key of PublicKey
Messages ==
    {m \in [Message : BOOLEAN, Sender : BOOLEAN, PublicKey : BOOLEAN,
            Address : {0, 14}, Signature : BOOLEAN, genuine : BOOLEAN] :
        /\ ~m.Sender => (~m.PublicKey /\ m.Address = 0)
        /\ m.genuine => (m.Message /\ m.Sender /\ m.PublicKey /\ m.Signature)}

\* crypto.Verify(msg.Sender.PublicKey, msg.Message.Value, msg.Signature)
crypto_Verify(m) == m.genuine

\* the required-field check without its last condition
InvalidHeaders_NoSignature(m) ==
    \/ ~m.Message
    \/ ~m.Sender
    \/ ~m.PublicKey
    \/ m.Address = 0

\* line 123: the required-field check
InvalidHeaders(m) ==
    \/ ~m.Message
    \/ ~m.Sender
    \/ ~m.PublicKey
    \/ m.Address = 0
    \/ ~m.Signature

\* the signature check left out
BadSignature_Skipped(m) == FALSE

\* line 128: the signature check
BadSignature(m) == ~crypto_Verify(m)

\* the size check with >= for >
FramingBroken_OffByOne(size, read) == read <= 0 \/ size >= MaxMessageSize

\* line 98: the declared size is broken or too large
FramingBroken(size, read) == read <= 0 \/ size > MaxMessageSize

\* the Close deferred together with the deadline reset, after the
\* SetDeadline error check
Teardown_CloseIfDeadline(log, deadlineSet) ==
    IF deadlineSet THEN log \o <<"ResetDeadline", "Close">> ELSE log

\* an explicit Close before the deferred calls on every return
Teardown_ExtraClose(log, deadlineSet) ==
    log \o <<"Close">> \o (IF deadlineSet THEN <<"ResetDeadline">> ELSE <<>>) \o <<"Close">>

\* lines 29-31 and 22, 72 and 79-81: the deferred calls run when the
\* function returns, last registered first
Teardown(log, deadlineSet) ==
    log \o (IF deadlineSet THEN <<"ResetDeadline">> ELSE <<>>) \o <<"Close">>

(***************************************************************************)
(* sendMessage (lines 17-64)                                               *)
(***************************************************************************)
\* the prefix cut to the bytes PutUvarint stored
FramePrefix_Minimal(n) == UvarintBytes(n)

\* lines 38-43: a MaxVarintLen64-byte buffer holding the varint of
\* len(bytes), with the message appended to the whole buffer
FramePrefix(n) == ZeroPadded(UvarintBytes(n), MaxVarintLen64)

Frame(bytes) == BCat(BFromSeq(FramePrefix(BLen(bytes))), bytes)

sendUnchanged == UNCHANGED <<rPc, rProbe, rConsumed, rSize, rRead, rAlloc, rBodyReads,
                             rGot, rBody, rMsg, rVerify, rResult, rErr, rDeadline, rLog,
                             writeVars>>

\* return err: the deferred calls run and the peer sees the stream end
sendReturn(err, log) ==
    /\ sPc' = "done"
    /\ sErr' = err
    /\ sLog' = Teardown(log, sDeadline)
    /\ wireEnd' = "closed"

\* lines 18-22
sendMessage_OpenStream ==
    /\ sPc = "start"
    /\ \/ /\ sPc' = "setDeadline"
          /\ sLog' = <<"OpenStream">>
          /\ UNCHANGED sErr
       \/ /\ sPc' = "done"
          /\ sErr' = "open"
          /\ UNCHANGED sLog
    /\ UNCHANGED <<sBytes, sFrame, sWritten, sDeadline, wire, wireEnd>>
    /\ sendUnchanged

\* SetDeadline with its error ignored
sendMessage_SetDeadline_IgnoreError ==
    /\ sPc = "setDeadline"
    /\ sPc' = "marshal"
    /\ \E op \in {"SetDeadline", "SetDeadlineErr"} : sLog' = Append(sLog, op)
    /\ sDeadline' = TRUE
    /\ UNCHANGED <<sErr, wireEnd>>
    /\ UNCHANGED <<sBytes, sFrame, sWritten, wire>>
    /\ sendUnchanged

\* lines 24-31
sendMessage_SetDeadline ==
    /\ sPc = "setDeadline"
    /\ \/ /\ sPc' = "marshal"
          /\ sLog' = Append(sLog, "SetDeadline")
          /\ sDeadline' = TRUE
          /\ UNCHANGED <<sErr, wireEnd>>
       \/ /\ sendReturn("setDeadline", Append(sLog, "SetDeadlineErr"))
          /\ UNCHANGED sDeadline
    /\ UNCHANGED <<sBytes, sFrame, sWritten, wire>>
    /\ sendUnchanged

\* lines 33-43
sendMessage_Marshal ==
    /\ sPc = "marshal"
    /\ \/ \E bytes \in MarshalOutputs :
             /\ sBytes' = bytes
             /\ sFrame' = Frame(bytes)
             /\ sPc' = "write"
             /\ UNCHANGED <<sErr, sLog, wireEnd>>
       \/ /\ sendReturn("marshal", sLog)
          /\ UNCHANGED <<sBytes, sFrame>>
    /\ UNCHANGED <<sWritten, sDeadline, wire>>
    /\ sendUnchanged

\* lines 45-51: a frame that fits the bufio buffer is only copied into it
sendMessage_WriteBuffered ==
    /\ sPc = "write"
    /\ BLen(sFrame) <= BufioSize
    /\ sWritten' = BLen(sFrame)
    /\ sPc' = "flush"
    /\ UNCHANGED <<sBytes, sFrame, sErr, sDeadline, sLog, wire, wireEnd>>
    /\ sendUnchanged

\* lines 45-51: a larger frame goes straight to stream.Write
sendMessage_WriteDirect ==
    /\ sPc = "write"
    /\ BLen(sFrame) > BufioSize
    /\ \/ /\ sWritten' = BLen(sFrame)
          /\ wire' = sFrame
          /\ sLog' = Append(sLog, "Write")
          /\ sPc' = "flush"
          /\ UNCHANGED <<sErr, wireEnd>>
       \/ \E k \in PartialWrites :
             /\ sWritten' = k
             /\ wire' = BTake(sFrame, k)
             /\ sendReturn("write", Append(sLog, "Write"))
    /\ UNCHANGED <<sBytes, sFrame, sDeadline>>
    /\ sendUnchanged

\* Flush with its error ignored
sendMessage_Flush_IgnoreError ==
    /\ sPc = "flush"
    /\ LET buffered == IF BLen(sFrame) <= BufioSize THEN sFrame ELSE <<>>
           log == IF buffered = <<>> THEN sLog ELSE Append(sLog, "Write")
       IN  /\ \E k \in PartialWrites \cup {BLen(buffered)} :
                 /\ k <= BLen(buffered)
                 /\ wire' = BCat(wire, BTake(buffered, k))
           /\ sendReturn(IF sWritten # BLen(sFrame) THEN "short" ELSE "nil", log)
    /\ UNCHANGED <<sBytes, sFrame, sWritten, sDeadline>>
    /\ sendUnchanged

\* lines 53-63: Flush writes what the buffer holds; then the written count
\* is compared with the frame length
sendMessage_Flush ==
    /\ sPc = "flush"
    /\ LET buffered == IF BLen(sFrame) <= BufioSize THEN sFrame ELSE <<>>
           log == IF buffered = <<>> THEN sLog ELSE Append(sLog, "Write")
       IN  \/ /\ wire' = BCat(wire, buffered)
              /\ sendReturn(IF sWritten # BLen(sFrame) THEN "short" ELSE "nil", log)
           \/ /\ buffered # <<>>
              /\ \E k \in PartialWrites :
                    /\ k < BLen(buffered)
                    /\ wire' = BTake(buffered, k)
              /\ sendReturn("flush", log)
    /\ UNCHANGED <<sBytes, sFrame, sWritten, sDeadline>>
    /\ sendUnchanged

\* a peer that does not run sendMessage: it writes what it likes, and closes
\* the stream or leaves it open
RawPeer ==
    /\ sPc = "start"
    /\ sPc' = "raw"
    /\ wire' \in RawWires
    /\ wireEnd' \in {"open", "closed"}
    /\ UNCHANGED <<sBytes, sFrame, sWritten, sErr, sDeadline, sLog>>
    /\ sendUnchanged

(***************************************************************************)
(* receiveMessage (lines 67-133)                                           *)
(***************************************************************************)
recvUnchanged == UNCHANGED <<sPc, sBytes, sFrame, sWritten, sErr, sDeadline, sLog,
                             wireEnd, writeVars>>

\* the peer has finished with its end of the stream.  receiveMessage is run
\* after the peer: what an earlier start could observe (a short first Read,
\* the deadline passing while bytes are still to come) is chosen freely in
\* the read actions below.
PeerDone == sPc \in {"done", "raw"}

\* the peer opened a stream for AcceptStream to return
PeerOpened == sPc = "raw" \/ (sPc = "done" /\ sLog # <<>>)

\* return nil, err or return msg, nil: the deferred calls run
recvReturn(msg, err, log) ==
    /\ rPc' = "done"
    /\ rResult' = msg
    /\ rErr' = err
    /\ rLog' = Teardown(log, rDeadline)

\* lines 68-72
receiveMessage_AcceptStream ==
    /\ rPc = "start"
    /\ PeerDone
    /\ \/ /\ PeerOpened
          /\ rPc' = "setDeadline"
          /\ rLog' = <<"AcceptStream">>
          /\ UNCHANGED <<rResult, rErr>>
       \/ /\ rPc' = "done"
          /\ rErr' = "accept"
          /\ UNCHANGED <<rResult, rLog>>
    /\ UNCHANGED <<rProbe, rConsumed, rSize, rRead, rAlloc, rBodyReads, rGot, rBody, rMsg,
                   rVerify, rDeadline, wire>>
    /\ recvUnchanged

\* lines 74-81
receiveMessage_SetDeadline ==
    /\ rPc = "setDeadline"
    /\ \/ /\ rPc' = "probe"
          /\ rLog' = Append(rLog, "SetDeadline")
          /\ rDeadline' = TRUE
          /\ UNCHANGED <<rResult, rErr>>
       \/ /\ recvReturn(NoMsg, "setDeadline", Append(rLog, "SetDeadlineErr"))
          /\ UNCHANGED rDeadline
    /\ UNCHANGED <<rProbe, rConsumed, rSize, rRead, rAlloc, rBodyReads, rGot, rBody, rMsg,
                   rVerify, wire>>
    /\ recvUnchanged

\* lines 83-100: one reader.Read into the MaxVarintLen64-byte buffer.  The
\* bufio reader makes one stream.Read of up to BufioSize bytes, of which the
\* transport delivers m; Read returns the first min(m, 10) of them.  Then
\* the size is decoded and checked.
receiveMessage_ReadPrefix ==
    /\ rPc = "probe"
    /\ wire # <<>>
    /\ \E c \in FirstChunks :
          LET m == Min(c, Min(BLen(wire), BufioSize))
              n == Min(m, MaxVarintLen64)
              buffer == ZeroPadded(BExplode(BTake(wire, n)), MaxVarintLen64)
              u == Uvarint(buffer)
          IN  /\ rConsumed' = m
              /\ rProbe' = n
              /\ wire' = BDrop(wire, n)
              /\ rSize' = u.size
              /\ rRead' = u.read
              /\ IF FramingBroken(u.size, u.read)
                 THEN recvReturn(NoMsg, "framing", Append(rLog, "Read"))
                 ELSE /\ rPc' = "body"
                      /\ rLog' = Append(rLog, "Read")
                      /\ UNCHANGED <<rResult, rErr>>
    /\ UNCHANGED <<rAlloc, rBodyReads, rGot, rBody, rMsg, rVerify, rDeadline>>
    /\ recvUnchanged

\* lines 87-90: the first Read fails: the stream ended before any byte, or
\* the deadline passed
receiveMessage_ReadPrefixError ==
    /\ rPc = "probe"
    /\ \E err \in {"EOF", "timeout"} :
          /\ err = "EOF" => (wire = <<>> /\ wireEnd = "closed")
          /\ recvReturn(NoMsg, err, Append(rLog, "Read"))
    /\ UNCHANGED <<rProbe, rConsumed, rSize, rRead, rAlloc, rBodyReads, rGot, rBody, rMsg,
                   rVerify, rDeadline, wire>>
    /\ recvUnchanged

\* io.ReadFull: the error it returns when the stream ends after got of
\* size bytes (size > got)
ReadFullEndError(got) == IF got = 0 THEN "EOF" ELSE "ErrUnexpectedEOF"

\* the extra Close on every body-read error
ForcedClose_Always(log, err) == Append(log, "Close")

\* lines 106-112: the extra Close on io.ErrUnexpectedEOF
ForcedClose(log, err) == IF err = "ErrUnexpectedEOF" THEN Append(log, "Close") ELSE log

\* lines 102-112: allocate the body buffer and fill it
receiveMessage_ReadBody ==
    /\ rPc = "body"
    /\ rAlloc' = rSize
    /\ rBodyReads' = rBodyReads + 1
    /\ LET log == IF rSize = 0 THEN rLog ELSE Append(rLog, "Read")
       IN  \/ \* the whole body arrives
              /\ BLen(wire) >= rSize
              /\ rGot' = rSize
              /\ rBody' = BTake(wire, rSize)
              /\ wire' = BDrop(wire, rSize)
              /\ rPc' = "unmarshal"
              /\ rLog' = log
              /\ UNCHANGED <<rResult, rErr>>
           \/ \* the peer closed the stream before the whole body
              /\ BLen(wire) < rSize
              /\ wireEnd = "closed"
              /\ rGot' = BLen(wire)
              /\ wire' = <<>>
              /\ recvReturn(NoMsg, ReadFullEndError(BLen(wire)),
                            ForcedClose(log, ReadFullEndError(BLen(wire))))
              /\ UNCHANGED rBody
           \/ \* the deadline passes after got bytes
              /\ rSize > 0
              /\ \E got \in {0, Min(1, BLen(wire))} :
                    /\ got < rSize
                    /\ rGot' = got
                    /\ wire' = BDrop(wire, got)
                    /\ recvReturn(NoMsg, "timeout", ForcedClose(log, "timeout"))
              /\ UNCHANGED rBody
    /\ UNCHANGED <<rProbe, rConsumed, rSize, rRead, rMsg, rVerify, rDeadline>>
    /\ recvUnchanged

\* lines 114-120
receiveMessage_Unmarshal ==
    /\ rPc = "unmarshal"
    /\ \/ \E m \in Messages :
             /\ rMsg' = m
             /\ rPc' = "validate"
             /\ UNCHANGED <<rResult, rErr, rLog>>
       \/ /\ recvReturn(NoMsg, "unmarshal", rLog)
          /\ UNCHANGED rMsg
    /\ UNCHANGED <<rProbe, rConsumed, rSize, rRead, rAlloc, rBodyReads, rGot, rBody,
                   rVerify, rDeadline, wire>>
    /\ recvUnchanged

\* lines 122-125
receiveMessage_CheckHeaders ==
    /\ rPc = "validate"
    /\ IF InvalidHeaders(rMsg)
       THEN recvReturn(NoMsg, "invalid", rLog)
       ELSE /\ rPc' = "verify"
            /\ UNCHANGED <<rResult, rErr, rLog>>
    /\ UNCHANGED <<rProbe, rConsumed, rSize, rRead, rAlloc, rBodyReads, rGot, rBody, rMsg,
                   rVerify, rDeadline, wire>>
    /\ recvUnchanged

\* lines 127-132
receiveMessage_Verify ==
    /\ rPc = "verify"
    /\ rVerify' = Append(rVerify, rMsg)
    /\ IF BadSignature(rMsg)
       THEN recvReturn(NoMsg, "signature", rLog)
       ELSE recvReturn(rMsg, "nil", rLog)
    /\ UNCHANGED <<rProbe, rConsumed, rSize, rRead, rAlloc, rBodyReads, rGot, rBody, rMsg,
                   rDeadline, wire>>
    /\ recvUnchanged

(***************************************************************************)
(* Write (lines 136-153), n.SendQueue and the workers that consume it      *)
(***************************************************************************)
\* concurrent Write calls; the packet of call w is packet w
NumWriters == 2

\* workers receiving from n.SendQueue
NumWorkers == 2

\* largest capacity n.SendQueue is tried with (0 is an unbuffered channel)
MaxQueueCap == 1

Writers == 1..NumWriters
Workers == 1..NumWorkers
Addresses == {"tcp://a:1"}
Payloads == {"msg"}

\* what a worker can put into a packet's Result channel: errors and
\* values that are not errors
ErrorValues == {"E1", "E2"}
OtherValues == {"nilValue", "struct"}
Values == ErrorValues \cup OtherValues

NoPacket == [nil |-> TRUE]

\* an unbuffered Result channel
MakeResultChan_Unbuffered == [cap |-> 0, buf |-> <<>>]

\* line 137: make(chan interface{}, 1)
MakeResultChan == [cap |-> 1, buf |-> <<>>]

\* every packet given the same Result channel
NewPacket_SharedResult(w, address, message) ==
    [RemoteAddress |-> address, Payload |-> message, Result |-> 1]

\* line 137: the packet of call w, with a Result channel of its own
NewPacket(w, address, message) ==
    [RemoteAddress |-> address, Payload |-> message, Result |-> w]

\* the type switch without its error case
ResultToError_AlwaysNil(raw) == "nil"

\* lines 143-148: the type switch on the value received
ResultToError(raw) == IF raw \in ErrorValues THEN raw ELSE "nil"

writeUnchanged == UNCHANGED streamVars

\* line 137
Write_NewPacket(w) ==
    /\ wPc[w] = "start"
    /\ \E address \in Addresses, message \in Payloads :
          LET packet == NewPacket(w, address, message)
          IN  /\ wArgs' = [wArgs EXCEPT ![w] = <<address, message>>]
              /\ packets' = [packets EXCEPT ![w] = packet]
              /\ resultChan' = [resultChan EXCEPT ![packet.Result] = MakeResultChan]
    /\ wPc' = [wPc EXCEPT ![w] = "enqueue"]
    /\ UNCHANGED <<sendQueue, sendQueueCap, wTimer, wRet, wFrom, wRaw, cPc, cPkt, taken,
                   completedWith, lateTaken, lateCompleted>>
    /\ writeUnchanged

\* a send that puts the packet on the queue twice
Write_Enqueue_Twice(w) ==
    /\ wPc[w] = "enqueue"
    /\ Len(sendQueue) < sendQueueCap
    /\ sendQueue' = Append(Append(sendQueue, w), w)
    /\ wPc' = [wPc EXCEPT ![w] = "select"]
    /\ wTimer' = [wTimer EXCEPT ![w] = "running"]
    /\ UNCHANGED <<wArgs, packets, sendQueueCap, resultChan, wRet, wFrom, wRaw, cPc, cPkt, taken,
                   completedWith, lateTaken, lateCompleted>>
    /\ writeUnchanged

\* line 139 on a channel with room in its buffer; the select that follows
\* starts the 3-second timer
Write_Enqueue(w) ==
    /\ wPc[w] = "enqueue"
    /\ Len(sendQueue) < sendQueueCap
    /\ sendQueue' = Append(sendQueue, w)
    /\ wPc' = [wPc EXCEPT ![w] = "select"]
    /\ wTimer' = [wTimer EXCEPT ![w] = "running"]
    /\ UNCHANGED <<wArgs, packets, sendQueueCap, resultChan, wRet, wFrom, wRaw, cPc, cPkt, taken,
                   completedWith, lateTaken, lateCompleted>>
    /\ writeUnchanged

\* line 139 on an unbuffered channel: the send completes when a worker
\* receives
Write_Handoff(w, c) ==
    /\ wPc[w] = "enqueue"
    /\ sendQueueCap = 0
    /\ cPc[c] = "idle"
    /\ cPc' = [cPc EXCEPT ![c] = "holding"]
    /\ cPkt' = [cPkt EXCEPT ![c] = w]
    /\ taken' = [taken EXCEPT ![w] = @ + 1]
    /\ wPc' = [wPc EXCEPT ![w] = "select"]
    /\ wTimer' = [wTimer EXCEPT ![w] = "running"]
    /\ UNCHANGED <<wArgs, packets, sendQueue, sendQueueCap, resultChan, wRet, wFrom, wRaw,
                   completedWith, lateTaken, lateCompleted>>
    /\ writeUnchanged

\* line 149: three seconds after the select began, while the call still waits
\* (a timer that fires after the call returned is seen by no one)
TimerFire(w) ==
    /\ wPc[w] = "select"
    /\ wTimer[w] = "running"
    /\ wTimer' = [wTimer EXCEPT ![w] = "fired"]
    /\ UNCHANGED <<wPc, wArgs, packets, sendQueue, sendQueueCap, resultChan, wRet, wFrom, wRaw,
                   cPc, cPkt, taken, completedWith, lateTaken, lateCompleted>>
    /\ writeUnchanged

\* lines 142-148: the select takes the value in the packet's Result channel
Write_Receive(w) ==
    /\ wPc[w] = "select"
    /\ LET ch == packets[w].Result
       IN  /\ resultChan[ch].buf # <<>>
           /\ wRaw' = [wRaw EXCEPT ![w] = Head(resultChan[ch].buf)]
           /\ wRet' = [wRet EXCEPT ![w] = ResultToError(Head(resultChan[ch].buf))]
           /\ resultChan' = [resultChan EXCEPT ![ch].buf = Tail(@)]
    /\ wFrom' = [wFrom EXCEPT ![w] = "result"]
    /\ wPc' = [wPc EXCEPT ![w] = "done"]
    /\ UNCHANGED <<wArgs, packets, sendQueue, sendQueueCap, wTimer, cPc, cPkt, taken,
                   completedWith, lateTaken, lateCompleted>>
    /\ writeUnchanged

\* a timeout that withdraws the packet from the queue
Write_Timeout_Cancel(w) ==
    /\ wPc[w] = "select"
    /\ wTimer[w] = "fired"
    /\ wRet' = [wRet EXCEPT ![w] = "timeout"]
    /\ wFrom' = [wFrom EXCEPT ![w] = "timer"]
    /\ wPc' = [wPc EXCEPT ![w] = "done"]
    /\ sendQueue' = SelectSeq(sendQueue, LAMBDA p : p # w)
    /\ UNCHANGED <<wRaw, wArgs, packets, sendQueueCap, resultChan, wTimer, cPc, cPkt,
                   taken, completedWith, lateTaken, lateCompleted>>
    /\ writeUnchanged

\* a timeout taken without waiting for the timer
Write_Timeout_Early(w) ==
    /\ wPc[w] = "select"
    /\ wRet' = [wRet EXCEPT ![w] = "timeout"]
    /\ wFrom' = [wFrom EXCEPT ![w] = "timer"]
    /\ wPc' = [wPc EXCEPT ![w] = "done"]
    /\ UNCHANGED <<wRaw, wArgs, packets, sendQueue, sendQueueCap, resultChan, wTimer, cPc, cPkt,
                   taken, completedWith, lateTaken, lateCompleted>>
    /\ writeUnchanged

\* lines 149-152: the select takes the timer
Write_Timeout(w) ==
    /\ wPc[w] = "select"
    /\ wTimer[w] = "fired"
    /\ wRet' = [wRet EXCEPT ![w] = "timeout"]
    /\ wFrom' = [wFrom EXCEPT ![w] = "timer"]
    /\ wPc' = [wPc EXCEPT ![w] = "done"]
    /\ UNCHANGED <<wRaw, wArgs, packets, sendQueue, sendQueueCap, resultChan, wTimer, cPc, cPkt,
                   taken, completedWith, lateTaken, lateCompleted>>
    /\ writeUnchanged

\* a worker receives the next packet from n.SendQueue
Worker_Receive(c) ==
    /\ cPc[c] = "idle"
    /\ sendQueue # <<>>
    /\ LET p == Head(sendQueue)
       IN  /\ cPkt' = [cPkt EXCEPT ![c] = p]
           /\ taken' = [taken EXCEPT ![p] = @ + 1]
           /\ lateTaken' = IF wPc[p] = "done" THEN lateTaken \cup {p} ELSE lateTaken
    /\ sendQueue' = Tail(sendQueue)
    /\ cPc' = [cPc EXCEPT ![c] = "holding"]
    /\ UNCHANGED <<wPc, wArgs, packets, sendQueueCap, resultChan, wTimer, wRet, wFrom, wRaw,
                   completedWith, lateCompleted>>
    /\ writeUnchanged

\* a worker writes the outcome of the send into the Result channel of the
\* packet it holds, once, and is free again
Worker_Complete(c, v) ==
    /\ cPc[c] = "holding"
    /\ LET p == cPkt[c]
           ch == packets[p].Result
       IN  /\ Len(resultChan[ch].buf) < resultChan[ch].cap
           /\ resultChan' = [resultChan EXCEPT ![ch].buf = Append(@, v)]
           /\ completedWith' = [completedWith EXCEPT ![p] = Append(@, v)]
           /\ lateCompleted' = IF wPc[p] = "done" THEN lateCompleted \cup {p}
                               ELSE lateCompleted
    /\ cPc' = [cPc EXCEPT ![c] = "idle"]
    /\ cPkt' = [cPkt EXCEPT ![c] = 0]
    /\ UNCHANGED <<wPc, wArgs, packets, sendQueue, sendQueueCap, wTimer, wRet, wFrom, wRaw,
                   taken, lateTaken>>
    /\ writeUnchanged

(***************************************************************************)
(* Specifications                                                          *)
(***************************************************************************)
InitStream ==
    /\ sPc = "start"
    /\ sBytes = <<>>
    /\ sFrame = <<>>
    /\ sWritten = 0
    /\ sErr = "pending"
    /\ sDeadline = FALSE
    /\ sLog = <<>>
    /\ wire = <<>>
    /\ wireEnd = "open"
    /\ rPc = "start"
    /\ rProbe = 0
    /\ rConsumed = 0
    /\ rSize = 0
    /\ rRead = 0
    /\ rAlloc = -1
    /\ rBodyReads = 0
    /\ rGot = 0
    /\ rBody = <<>>
    /\ rMsg = NoMsg
    /\ rVerify = <<>>
    /\ rResult = NoMsg
    /\ rErr = "pending"
    /\ rDeadline = FALSE
    /\ rLog = <<>>

InitWrite ==
    /\ wPc = [w \in Writers |-> "start"]
    /\ wArgs = [w \in Writers |-> <<>>]
    /\ packets = [w \in Writers |-> NoPacket]
    /\ sendQueue = <<>>
    /\ sendQueueCap \in 0..MaxQueueCap
    /\ resultChan = [w \in Writers |-> [cap |-> 0, buf |-> <<>>]]
    /\ wTimer = [w \in Writers |-> "off"]
    /\ wRet = [w \in Writers |-> "pending"]
    /\ wFrom = [w \in Writers |-> "none"]
    /\ wRaw = [w \in Writers |-> "none"]
    /\ cPc = [c \in Workers |-> "idle"]
    /\ cPkt = [c \in Workers |-> 0]
    /\ taken = [w \in Writers |-> 0]
    /\ completedWith = [w \in Writers |-> <<>>]
    /\ lateTaken = {}
    /\ lateCompleted = {}

Init == InitStream /\ InitWrite

Next ==
    \/ sendMessage_OpenStream
    \/ sendMessage_SetDeadline
    \/ sendMessage_Marshal
    \/ sendMessage_WriteBuffered
    \/ sendMessage_WriteDirect
    \/ sendMessage_Flush
    \/ RawPeer
    \/ receiveMessage_AcceptStream
    \/ receiveMessage_SetDeadline
    \/ receiveMessage_ReadPrefix
    \/ receiveMessage_ReadPrefixError
    \/ receiveMessage_ReadBody
    \/ receiveMessage_Unmarshal
    \/ receiveMessage_CheckHeaders
    \/ receiveMessage_Verify

\* one sendMessage call or raw peer, and one receiveMessage call
Spec == Init /\ [][Next]_vars

NextWrite ==
    \/ \E w \in Writers : Write_NewPacket(w)
    \/ \E w \in Writers : Write_Enqueue(w)
    \/ \E w \in Writers, c \in Workers : Write_Handoff(w, c)
    \/ \E w \in Writers : TimerFire(w)
    \/ \E w \in Writers : Write_Receive(w)
    \/ \E w \in Writers : Write_Timeout(w)
    \/ \E c \in Workers : Worker_Receive(c)
    \/ \E c \in Workers, v \in Values : Worker_Complete(c, v)

\* concurrent Write calls and the workers
SpecWrite == Init /\ [][NextWrite]_vars

\* every step of a Write call that Write itself can take is eventually
\* taken: the goroutine runs, and the timer fires.  Nothing is assumed of
\* the workers.
FairSpecWrite ==
    /\ SpecWrite
    /\ \A w \in Writers :
          /\ WF_vars(Write_NewPacket(w))
          /\ WF_vars(Write_Enqueue(w))
          /\ WF_vars(TimerFire(w))
          /\ WF_vars(Write_Receive(w) \/ Write_Timeout(w))

(***************************************************************************)
(* Properties of receiveMessage and of the framing (checked under Spec)    *)
(***************************************************************************)
\* a message has every required field
AllFieldsPresent(m) ==
    m.Message /\ m.Sender /\ m.PublicKey /\ m.Address > 0 /\ m.Signature

\* the body read at line 104 filled the buffer
BodyReadComplete ==
    \/ rPc \in {"unmarshal", "validate", "verify"}
    \/ rPc = "done" /\ rErr \in {"unmarshal", "invalid", "signature", "nil"}

CloseCount(log) == Cardinality({i \in DOMAIN log : log[i] = "Close"})

\* C1: receiveMessage returns a message only when the decoded message has
\* its payload, sender, sender public key, a non-empty sender address and a
\* signature, and crypto.Verify was called on it and returned true; on
\* every other return it gives an error and no message.
C1_OnlyVerifiedMessageReturned ==
    /\ rPc # "done" => rResult = NoMsg
    /\ rPc = "done" =>
          IF rErr = "nil"
          THEN /\ rResult # NoMsg
               /\ rResult = rMsg
               /\ AllFieldsPresent(rResult)
               /\ rVerify = <<rResult>>
               /\ rResult.genuine
          ELSE rResult = NoMsg

C1_Witness ==
    /\ rPc = "done"
    /\ rErr = "nil"
    /\ rResult # NoMsg
    /\ rVerify = <<rResult>>

\* C2: an undecodable length prefix (read count <= 0) or one declaring more
\* than 4,000,000 bytes fails the call with no body buffer allocated and
\* no body read started; a declared 4,000,000 passes this check and a
\* declared 4,000,001 does not.
C2_SizeCheckedBeforeBody ==
    /\ (rProbe > 0 /\ (rRead <= 0 \/ rSize > 4000000)) =>
          (rPc = "done" /\ rErr = "framing")
    /\ (rPc = "done" /\ rErr = "framing") =>
          (rAlloc = -1 /\ rBodyReads = 0 /\ rGot = 0 /\ rBody = <<>>)
    /\ (rAlloc # -1 \/ rBodyReads > 0) =>
          (rRead > 0 /\ rSize <= 4000000 /\ rAlloc = rSize)
    /\ (rProbe > 0 /\ rRead > 0 /\ rSize = 4000000) => rErr # "framing"
    /\ (rProbe > 0 /\ rSize = 4000001) => rErr = "framing"

C2_Witness ==
    /\ rPc = "done"
    /\ rErr = "framing"
    /\ rSize = 4000001
    /\ rRead > 0
    /\ rAlloc = -1
    /\ rBodyReads = 0

\* C3: crypto.Verify is never invoked on a message that fails the
\* required-field check; such a message is rejected with no call to it.
C3_NoVerifyOnInvalidHeaders ==
    /\ \A i \in DOMAIN rVerify : AllFieldsPresent(rVerify[i])
    /\ (rMsg # NoMsg /\ ~AllFieldsPresent(rMsg) /\ rPc = "done") =>
          (rVerify = <<>> /\ rErr = "invalid" /\ rResult = NoMsg)

C3_Witness ==
    /\ rPc = "done"
    /\ rMsg # NoMsg
    /\ rMsg.Message /\ rMsg.Sender /\ rMsg.PublicKey /\ rMsg.Address > 0
    /\ ~rMsg.Signature
    /\ rErr = "invalid"
    /\ rVerify = <<>>

\* C4: for every serialized message b of at most 4,000,000 bytes that
\* sendMessage wrote in full, a receiveMessage whose first Read filled the
\* 10-byte prefix buffer decodes the declared size len(b), is not cut short
\* by the end of the stream, and reads a body equal to b.
C4_FramingRoundTrip ==
    (sErr = "nil" /\ BLen(sBytes) <= 4000000 /\ rProbe = 10) =>
        /\ rRead > 0
        /\ rSize = BLen(sBytes)
        /\ rErr \notin {"framing", "EOF", "ErrUnexpectedEOF"}
        /\ BodyReadComplete => (rBody = sBytes /\ wire = <<>>)

C4_Witness ==
    /\ sErr = "nil"
    /\ BLen(sBytes) = 4000000
    /\ rProbe = 10
    /\ rPc = "unmarshal"
    /\ rSize = 4000000
    /\ rBody = sBytes

\* C10: when the peer closes the stream after k < L bytes of a body declared
\* L >= 1 long (k = 0 included), receiveMessage closes the stream at once, in
\* addition to the deferred Close, and returns an error; a body read that
\* fails for another reason returns an error without the extra Close.
C10_TruncationForcesClose ==
    (rPc = "done" /\ rBodyReads = 1 /\ rSize >= 1 /\ rGot < rSize) =>
        /\ rErr # "nil"
        /\ rResult = NoMsg
        /\ rErr \in {"EOF", "ErrUnexpectedEOF"} => CloseCount(rLog) = 2
        /\ rErr = "timeout" => CloseCount(rLog) = 1

(***************************************************************************)
(* Properties of Write (checked under SpecWrite and FairSpecWrite)         *)
(***************************************************************************)
\* C5: every Write call returns, whatever the workers do: a call that has
\* reached line 139 eventually returns even if no worker ever receives its
\* packet or completes it.
C5_WriteAlwaysReturns ==
    \A w \in Writers : (wPc[w] = "enqueue") ~> (wPc[w] = "done")

\* C6: a worker that holds a packet whose Write call has already returned
\* the timeout error can write its completion value at once: the packet's
\* Result channel has room.
C6_LateCompletionHasRoom ==
    \A c \in Workers :
        (cPc[c] = "holding" /\ wPc[cPkt[c]] = "done" /\ wFrom[cPkt[c]] = "timer") =>
            LET ch == resultChan[packets[cPkt[c]].Result]
            IN  Len(ch.buf) < ch.cap

C6_Witness ==
    \E w \in Writers :
        /\ wRet[w] = "timeout"
        /\ w \in lateCompleted
        /\ resultChan[packets[w].Result].buf # <<>>

\* C7: a Write call that received a value from its packet's Result channel
\* returns that value when it is an error and nil when it is not.
C7_ResultMapping ==
    \A w \in Writers :
        (wPc[w] = "done" /\ wFrom[w] = "result") =>
            /\ wRaw[w] \in {"E1", "E2"} => wRet[w] = wRaw[w]
            /\ wRaw[w] \in {"nilValue", "struct"} => wRet[w] = "nil"
            /\ wRaw[w] \in {"E1", "E2", "nilValue", "struct"}

C7_Witness ==
    \E w1, w2 \in Writers :
        /\ wFrom[w1] = "result" /\ wRaw[w1] = "E2" /\ wRet[w1] = "E2"
        /\ wFrom[w2] = "result" /\ wRaw[w2] = "struct" /\ wRet[w2] = "nil"

\* C8: with Write calls running concurrently and workers completing packets
\* in any order, the value a call receives is the one a worker wrote for the
\* packet that call created, never one written for another call's packet.
C8_OwnOutcomeOnly ==
    \A w \in Writers :
        (wPc[w] = "done" /\ wFrom[w] = "result") =>
            /\ completedWith[w] # <<>>
            /\ wRaw[w] = completedWith[w][1]

C8_Witness ==
    \E w1, w2 \in Writers :
        /\ w1 # w2
        /\ wPc[w1] = "done" /\ wFrom[w1] = "result"
        /\ wPc[w2] = "done" /\ wFrom[w2] = "result"
        /\ completedWith[w1] = <<"E1">> /\ wRet[w1] = "E1"
        /\ completedWith[w2] = <<"nilValue">> /\ wRet[w2] = "nil"

\* C9: the step in which a Write call returns the timeout error changes
\* neither SendQueue nor any packet, Result channel or worker: the packet
\* stays where it was and can still be received and completed.
C9_TimeoutLeavesPacket ==
    [][\A w \in Writers :
          (wPc[w] = "select" /\ wPc'[w] = "done" /\ wRet'[w] = "timeout") =>
              /\ sendQueue' = sendQueue
              /\ packets' = packets
              /\ resultChan' = resultChan
              /\ cPc' = cPc
              /\ cPkt' = cPkt]_vars

C9_Witness ==
    \E w \in Writers :
        /\ wRet[w] = "timeout"
        /\ w \in lateTaken
        /\ w \in lateCompleted

(***************************************************************************)
(* Stream lifecycle, write accounting, frame layout and step order         *)
(* (checked under Spec)                                                    *)
(***************************************************************************)
InLog(log, op) == \E i \in DOMAIN log : log[i] = op

\* the minimal number of bytes of the unsigned varint of n (n < 2^28)
MinimalVarintLen(n) ==
    IF n < 128 THEN 1 ELSE IF n < 16384 THEN 2 ELSE IF n < 2097152 THEN 3 ELSE 4

\* C11: a stream that sendMessage opened, or receiveMessage accepted, has
\* been closed when the call returns, whatever the exit path: Close is the
\* last operation on it.
C11_StreamClosedOnReturn ==
    /\ (sPc = "done" /\ sErr # "open") => (sLog # <<>> /\ sLog[Len(sLog)] = "Close")
    /\ (rPc = "done" /\ rErr # "accept") => (rLog # <<>> /\ rLog[Len(rLog)] = "Close")

C11_Witness ==
    /\ sPc = "done"
    /\ sErr = "setDeadline"
    /\ sLog = <<"OpenStream", "SetDeadlineErr", "Close">>
    /\ rPc = "done"
    /\ rErr = "EOF"
    /\ rLog[Len(rLog)] = "Close"

\* C12: a stream that sendMessage opened, or receiveMessage accepted, has
\* had its deadline reset to none when the call returns, on every exit
\* path, the one where the first SetDeadline fails included.
C12_DeadlineResetOnReturn ==
    /\ (sPc = "done" /\ sErr # "open") => InLog(sLog, "ResetDeadline")
    /\ (rPc = "done" /\ rErr # "accept") => InLog(rLog, "ResetDeadline")

\* C13: sendMessage returns nil only when writer.Write accepted as many
\* bytes as the frame holds and the flush put the whole frame on the
\* stream; a failed write, a failed flush or a different written count
\* gives an error.
C13_SuccessMeansFullWrite ==
    /\ (sPc = "done" /\ sErr = "nil") =>
          /\ sWritten = BLen(sFrame)
          /\ sFrame # <<>>
          /\ InLog(sLog, "Write")
          /\ rPc = "start" => wire = sFrame
    /\ (sPc = "done" /\ sErr # "open" /\ rPc = "start" /\ wire # sFrame) => sErr # "nil"
    /\ (sPc = "done" /\ sWritten # BLen(sFrame)) => sErr # "nil"

C13_Witness ==
    /\ sPc = "done"
    /\ sErr = "nil"
    /\ sWritten = BLen(sFrame)
    /\ rPc = "start"
    /\ wire = sFrame
    /\ BLen(sFrame) > BufioSize

\* C14: the frame sendMessage writes for a serialized message of n bytes is
\* the minimal unsigned varint of n followed at once by the n bytes: it is
\* (minimal varint length of n) + n bytes long.
C14_FrameIsMinimalVarintThenBody ==
    sPc \in {"write", "flush"} =>
        /\ BLen(sFrame) = MinimalVarintLen(BLen(sBytes)) + BLen(sBytes)
        /\ sFrame = BCat(BFromSeq(UvarintBytes(BLen(sBytes))), sBytes)

\* C15: the steps of a call run in order, each gating the next: nothing is
\* written to or read from the stream unless SetDeadline succeeded; the
\* body is read only after the prefix passed the size check, the message is
\* deserialized only after a full body read, its fields are checked only
\* after it was deserialized, and crypto.Verify runs only after the field
\* check passed.
C15_StepsInOrder ==
    /\ (InLog(sLog, "Write") \/ sPc \in {"marshal", "write", "flush"}) =>
          (Len(sLog) >= 2 /\ sLog[2] = "SetDeadline")
    /\ (InLog(rLog, "Read") \/ rPc \in {"probe", "body", "unmarshal", "validate", "verify"}) =>
          (Len(rLog) >= 2 /\ rLog[2] = "SetDeadline")
    /\ (rBodyReads > 0 \/ rPc = "body") =>
          (rProbe > 0 /\ rRead > 0 /\ rSize <= 4000000)
    /\ (rPc \in {"unmarshal", "validate", "verify"} \/ rMsg # NoMsg \/ rErr = "unmarshal") =>
          (rBodyReads = 1 /\ rGot = rSize /\ BLen(rBody) = rSize)
    /\ (rPc \in {"validate", "verify"} \/ rErr \in {"invalid", "signature", "nil"}) =>
          rMsg # NoMsg
    /\ (rPc = "verify" \/ rVerify # <<>>) => (rMsg # NoMsg /\ AllFieldsPresent(rMsg))
    /\ rVerify # <<>> => rVerify = <<rMsg>>

C15_Witness ==
    /\ sErr = "nil"
    /\ sLog = <<"OpenStream", "SetDeadline", "Write", "ResetDeadline", "Close">>
    /\ rPc = "done"
    /\ rErr = "signature"
    /\ rLog = <<"AcceptStream", "SetDeadline", "Read", "Read", "ResetDeadline", "Close">>
    /\ rVerify = <<rMsg>>

OpCount(log, op) == Cardinality({i \in DOMAIN log : log[i] = op})

\* no Read or Write follows the first Close in a log
NoIoAfterClose(log) ==
    \A i, j \in DOMAIN log :
        (i < j /\ log[i] = "Close") => log[j] \notin {"Read", "Write"}

\* a log ends with the deadline reset followed by Close
EndsWithResetThenClose(log) ==
    /\ Len(log) >= 2
    /\ log[Len(log) - 1] = "ResetDeadline"
    /\ log[Len(log)] = "Close"

\* C16 (as stated): a receiveMessage that fails with a framing error has
\* consumed at most the 10 bytes of the probe buffer from the stream, and
\* the stream is closed exactly once, by the deferred teardown.
C16_FramingErrorConsumesProbeOnly ==
    (rPc = "done" /\ rErr = "framing") =>
        /\ rConsumed <= 10
        /\ CloseCount(rLog) = 1

\* C16 (amended): a receiveMessage that fails with a framing error has made
\* one Read on the stream, through the bufio reader, which took at most 4096
\* bytes from the stream and handed at most 10 of them to the probe buffer;
\* no body read follows, and the stream is closed exactly once, by the
\* deferred teardown, with no forced close.
C16_FramingErrorOneBufferedRead ==
    (rPc = "done" /\ rErr = "framing") =>
        /\ OpCount(rLog, "Read") = 1
        /\ rProbe <= 10
        /\ rConsumed <= 4096
        /\ rProbe <= rConsumed
        /\ rBodyReads = 0
        /\ CloseCount(rLog) = 1
        /\ EndsWithResetThenClose(rLog)

C16_Witness ==
    /\ rPc = "done"
    /\ rErr = "framing"
    /\ rSize = 4000001
    /\ rProbe = 10
    /\ rConsumed = 4096
    /\ CloseCount(rLog) = 1

\* C18: the declared size and the body receiveMessage reads from a frame
\* that sendMessage wrote in full do not depend on how the transport splits
\* the bytes into reads: they are len(b) and b also when the first Read
\* returns fewer than 10 bytes.
C18_SplitIndependent ==
    (sErr = "nil" /\ BLen(sBytes) <= 4000000 /\ rProbe > 0) =>
        /\ rSize = BLen(sBytes)
        /\ rErr # "framing"
        /\ BodyReadComplete => rBody = sBytes

\* C20: Close is invoked exactly once on the stream on every exit path of
\* sendMessage after a successful open and of receiveMessage after a
\* successful accept, and exactly twice on receiveMessage's
\* io.ErrUnexpectedEOF path; where the deadline was set, the reset comes
\* right before the final Close; no Read or Write follows the first Close.
C20_CloseCountAndOrder ==
    /\ (sPc = "done" /\ sErr # "open") =>
          /\ CloseCount(sLog) = 1
          /\ InLog(sLog, "SetDeadline") => EndsWithResetThenClose(sLog)
    /\ (rPc = "done" /\ rErr # "accept") =>
          /\ CloseCount(rLog) = IF rErr = "ErrUnexpectedEOF" THEN 2 ELSE 1
          /\ InLog(rLog, "SetDeadline") => EndsWithResetThenClose(rLog)
    /\ NoIoAfterClose(sLog)
    /\ NoIoAfterClose(rLog)

C20_Witness ==
    /\ sPc = "done"
    /\ sErr = "flush"
    /\ CloseCount(sLog) = 1
    /\ rPc = "done"
    /\ rErr = "ErrUnexpectedEOF"
    /\ rLog = <<"AcceptStream", "SetDeadline", "Read", "Read", "Close", "ResetDeadline",
                "Close">>

\* how many times packet p stands in the queue
QueueCount(p) == Cardinality({i \in DOMAIN sendQueue : sendQueue[i] = p})

\* the workers that hold packet p
Holders(p) == {c \in Workers : cPc[c] = "holding" /\ cPkt[c] = p}

\* how many values Write has received from the Result channel of packet p
ResultReads(p) == Len(completedWith[p]) - Len(resultChan[p].buf)

\* C17: a Write call has one packet from its first step on; the packet is
\* not on the queue and with no worker until the send of line 139 is done,
\* and from then on (while Write waits and after it returned) it has been
\* enqueued once: it stands once in the queue or was taken once, by at most
\* one worker.  Write receives from the packet's Result channel at most
\* once, and only when it returns from the result case.
C17_OnePacketOneEnqueueOneConsumer ==
    \A w \in Writers :
        /\ (packets[w] = NoPacket) <=> (wPc[w] = "start")
        /\ (wPc[w] # "start") => (packets[w].Result = w)
        /\ QueueCount(w) + taken[w] = (IF wPc[w] \in {"select", "done"} THEN 1 ELSE 0)
        /\ Cardinality(Holders(w)) <= taken[w]
        /\ ResultReads(w) = (IF wFrom[w] = "result" THEN 1 ELSE 0)
        /\ (wFrom[w] = "result") => (wPc[w] = "done")

\* two calls returned, each packet taken once by a different worker, one
\* Result channel read and the other abandoned with its value unread
C17_Witness ==
    /\ \A w \in Writers : wPc[w] = "done" /\ taken[w] = 1 /\ QueueCount(w) = 0
    /\ \A w \in Writers : Len(completedWith[w]) = 1
    /\ wFrom[1] = "result" /\ ResultReads(1) = 1
    /\ wFrom[2] = "timer" /\ ResultReads(2) = 0

\* C19: Write returns nil only from the result case of the select, with a
\* value that a worker wrote into this call's own Result channel and that
\* is not an error; it returns the timeout error only from the timer case,
\* after the timer of this call has fired.
C19_SuccessNeedsCompletionTimeoutNeedsTimer ==
    \A w \in Writers :
        /\ (wRet[w] = "nil") =>
              /\ wFrom[w] = "result"
              /\ completedWith[w] # <<>>
              /\ wRaw[w] = completedWith[w][1]
              /\ wRaw[w] \notin ErrorValues
        /\ (wRet[w] = "timeout") => (wFrom[w] = "timer" /\ wTimer[w] = "fired")
        /\ (wPc[w] = "done" /\ completedWith[w] = <<>>) => (wRet[w] = "timeout")

\* one call returned nil on a completed packet, the other timed out on a
\* packet that no worker completed
C19_Witness ==
    /\ wRet[1] = "nil" /\ wRaw[1] = "struct" /\ completedWith[1] = <<"struct">>
    /\ wRet[2] = "timeout" /\ wTimer[2] = "fired" /\ completedWith[2] = <<>>

====
